---- MODULE Spec2Model ----
(***************************************************************************)
(* Beamforming simulator (App/Simulation.py, class BeamformingSimulator)   *)
(* together with the caller-side handling of its configuration list       *)
(* (App/Controller.py).                                                    *)
(*                                                                         *)
(* Numbers.  The program computes in IEEE doubles.  The model computes in  *)
(* fixed point with Scale = 1000:                                          *)
(*   lengths            millimetres                                        *)
(*   frequency          MHz  (so 3e8 m/s is 300 m*MHz)                     *)
(*   angles in radians  milliradians                                       *)
(*   sin / cos values   thousandths                                        *)
(*   wave number k      milliradians per metre                             *)
(*   intensities        thousandths                                        *)
(* The values an IEEE double can take besides a finite number (inf, -inf,  *)
(* nan) are kept: a float is a record [kind, v] (see Fin, Inf, NaN).       *)
(* Python's own division raises ZeroDivisionError on a zero divisor,       *)
(* numpy's division returns inf or nan; both are modelled as they behave.  *)
(***************************************************************************)
EXTENDS Integers, Sequences, FiniteSets, TLC

(* ------------------------------ bounds --------------------------------- *)
\* longest configuration list the caller hands over
MaxArrays == 2
\* largest num_elements of a configuration in the simulator runs
MaxElements == 2
\* largest num_elements in the runs of the geometry function alone
MaxGeomElements == 4
\* samples per axis of the grid (the program uses 200)
GridSamples == 2
\* samples of the angle sweep (the caller uses 500)
AngleSamples == 3

(* -------------------------- program constants -------------------------- *)
\* 3e8 (m/s), in m*MHz
SpeedOfLight == 300
\* np.pi, in thousandths
Pi == 3142

Scale == 10 * 100

(* ----------------------------- input sets ------------------------------ *)
\* operating frequencies a caller may pass (MHz)
Frequencies == {-5, 0, 100}
\* steering angles (degrees)
SteeringAngles == {0, 30}
\* curvature angles (degrees)
Curvatures == {0, 90}

\* configurations with elements, half a wavelength (at 100 MHz) apart
RegularConfigs ==
    [num_elements : 1..MaxElements, spacing : {1500}, curvature : Curvatures]

\* configurations a caller may also hand over: no element, or no spacing
\* (Controller.update_elements_spacing sets the spacing to 0)
DegenerateConfigs ==
    {[num_elements |-> 0, spacing |-> 1500, curvature |-> 0],
     [num_elements |-> 1, spacing |-> 0, curvature |-> 0]}

Configs == RegularConfigs \cup DegenerateConfigs

ConfigLists == UNION {[1..n -> Configs] : n \in 0..MaxArrays}

\* inputs of the runs of calculate_element_positions alone
GeomSpacings == {500, 1000, 1500, 2000}
GeomCurvatures == {0, 60, 90, 180}
GeomInputs ==
    [num_elements : 0..MaxGeomElements, element_spacing : GeomSpacings,
     curvature_degree : GeomCurvatures]

(* ------------------------- IEEE double values -------------------------- *)
Fin(v) == [kind |-> "fin", v |-> v]
Inf(sign) == [kind |-> "inf", v |-> sign]
NaN == [kind |-> "nan", v |-> 0]

IsFin(a) == a.kind = "fin"
IsNaN(a) == a.kind = "nan"

Sign(v) == IF v > 0 THEN 1 ELSE IF v < 0 THEN -1 ELSE 0

Abs(v) == IF v < 0 THEN -v ELSE v

\* a + b
FAdd(a, b) ==
    IF IsNaN(a) \/ IsNaN(b) THEN NaN
    ELSE IF IsFin(a) /\ IsFin(b) THEN Fin(a.v + b.v)
    ELSE IF IsFin(a) THEN b
    ELSE IF IsFin(b) THEN a
    ELSE IF a.v = b.v THEN a ELSE NaN

FNeg(a) == IF IsNaN(a) THEN NaN ELSE [kind |-> a.kind, v |-> -a.v]

\* a - b
FSub(a, b) == FAdd(a, FNeg(b))

\* a * b where the product of the two units needs no rescaling; 0 * inf = nan
FMul(a, b) ==
    IF IsNaN(a) \/ IsNaN(b) THEN NaN
    ELSE IF IsFin(a) /\ IsFin(b) THEN Fin(a.v * b.v)
    ELSE IF Sign(a.v) * Sign(b.v) = 0 THEN NaN
    ELSE Inf(Sign(a.v) * Sign(b.v))

\* a * b where b is in thousandths
FMulFix(a, b) ==
    LET p == FMul(a, b) IN IF IsFin(p) THEN Fin(p.v \div Scale) ELSE p

\* numpy's a / b for a finite divisor b given as an integer:
\* x / 0 is inf or -inf, 0 / 0 is nan (a warning, no exception)
NpDiv(a, b) ==
    IF IsNaN(a) THEN NaN
    ELSE IF b = 0 THEN (IF Sign(a.v) = 0 THEN NaN ELSE Inf(Sign(a.v)))
    ELSE IF IsFin(a) THEN Fin(a.v \div b)
    ELSE Inf(Sign(a.v) * Sign(b))

(* ------------------------------ numpy ---------------------------------- *)
\* np.radians: degrees to milliradians
Radians(deg) == (deg * Pi) \div 180

\* milliradians to whole degrees, rounded to nearest (x >= 0)
Degrees(x) == (x * 180 + Pi \div 2) \div Pi

SinTable ==
    <<0, 17, 35, 52, 70, 87, 105, 122, 139, 156, 174, 191, 208, 225, 242,
      259, 276, 292, 309, 326, 342, 358, 375, 391, 407, 423, 438, 454, 469,
      485, 500, 515, 530, 545, 559, 574, 588, 602, 616, 629, 643, 656, 669,
      682, 695, 707, 719, 731, 743, 755, 766, 777, 788, 799, 809, 819, 829,
      839, 848, 857, 866, 875, 883, 891, 899, 906, 914, 921, 927, 934, 940,
      946, 951, 956, 961, 966, 970, 974, 978, 982, 985, 988, 990, 993, 995,
      996, 998, 999, 999, 1000, 1000>>

\* sine of a whole number of degrees d >= 0, in thousandths
SinDeg(d) ==
    LET r == d % 360 IN
    IF r <= 90 THEN SinTable[r + 1]
    ELSE IF r <= 180 THEN SinTable[180 - r + 1]
    ELSE IF r <= 270 THEN -SinTable[r - 180 + 1]
    ELSE -SinTable[360 - r + 1]

\* np.sin of x milliradians, in thousandths
Sin(x) == IF x < 0 THEN -SinDeg(Degrees(-x)) ELSE SinDeg(Degrees(x))

\* np.cos of x milliradians, in thousandths
Cos(x) == SinDeg(Degrees(Abs(x)) + 90)

\* np.sin / np.cos of a double: nan and inf give nan
FSin(a) == IF IsFin(a) THEN Fin(Sin(a.v)) ELSE NaN
FCos(a) == IF IsFin(a) THEN Fin(Cos(a.v)) ELSE NaN

RECURSIVE Isqrt(_)
\* np.sqrt of n >= 0, rounded down
Isqrt(n) ==
    IF n < 2 THEN n
    ELSE LET s == 2 * Isqrt(n \div 4)
         IN  IF (s + 1) * (s + 1) <= n THEN s + 1 ELSE s

RECURSIVE ListOf(_, _)
\* the list [f[1], ..., f[n]], each entry computed once (a Python list or a
\* numpy array holds values, not the expressions that produced them)
ListOf(f, n) == IF n = 0 THEN <<>> ELSE Append(ListOf(f, n - 1), f[n])

\* np.linspace(a, b, n): n evenly spaced samples from a to b
Linspace(a, b, n) ==
    ListOf([i \in 1..n |-> IF n = 1 THEN a ELSE a + ((i - 1) * (b - a)) \div (n - 1)], n)

(* -------------------------- geometry engine ---------------------------- *)
\* LinearX centred on n * spacing / 2 instead of (n - 1) * spacing / 2
LinearX_OffCentre(i, num_elements, element_spacing) ==
    i * element_spacing - (num_elements * element_spacing) \div 2

\* the x coordinate of element i (0-based) of a linear array
LinearX(i, num_elements, element_spacing) ==
    i * element_spacing - ((num_elements - 1) * element_spacing) \div 2

\* the angle of element i (0-based) on the arc; the division by
\* num_elements - 1 is numpy's (curvature_radians is a numpy double)
ElementAngle(i, num_elements, curvature_radians) ==
    FAdd(Fin((-curvature_radians) \div 2),
         FMul(Fin(i), NpDiv(Fin(curvature_radians), num_elements - 1)))

\* radius of the arc, in mm
ArcRadius(num_elements, element_spacing, curvature_radians) ==
    LET arc_length == (num_elements - 1) * element_spacing
    IN  IF curvature_radians # 0
        THEN Fin((arc_length * Scale) \div curvature_radians)
        ELSE Inf(1)

\* BeamformingSimulator.calculate_element_positions: the list of (x, y)
CalculateElementPositions(num_elements, element_spacing, curvature_degree) ==
    IF curvature_degree = 0
    THEN ListOf([j \in 1..num_elements |->
            <<Fin(LinearX(j - 1, num_elements, element_spacing)), Fin(0)>>],
            num_elements)
    ELSE LET curvature_radians == Radians(curvature_degree)
             radius == ArcRadius(num_elements, element_spacing, curvature_radians)
         IN  ListOf([j \in 1..num_elements |->
                LET angle == ElementAngle(j - 1, num_elements, curvature_radians)
                IN  <<FSub(FMulFix(radius, FCos(angle)), radius),
                      FMulFix(radius, FSin(angle))>>], num_elements)

(* --------------------------- complex doubles --------------------------- *)
CZero == [re |-> Fin(0), im |-> Fin(0)]

CAdd(a, b) == [re |-> FAdd(a.re, b.re), im |-> FAdd(a.im, b.im)]

\* np.exp(1j * phase), phase in milliradians; a nan or inf phase gives nan+nanj
CExp(phase) == [re |-> FCos(phase), im |-> FSin(phase)]

\* np.abs(z) ** 2, in thousandths
AbsSquared(z) ==
    LET re == z.re
        im == z.im
    IN  FAdd(FMulFix(re, re), FMulFix(im, im))

(* --------------------------- field simulator --------------------------- *)
\* Python's a / b on Python numbers: raises ZeroDivisionError when b = 0
PyDiv(a, b) ==
    IF b = 0 THEN [raised |-> TRUE, v |-> 0]
    ELSE [raised |-> FALSE, v |-> a \div b]

\* 3e8 / frequency, in mm
Wavelength(frequency) == PyDiv(SpeedOfLight * Scale, frequency)

\* 2 * np.pi / wavelength, in milliradians per metre
WaveNumber(wavelength) == PyDiv(2 * Pi * Scale, wavelength)

\* One without the test on the curvature
One_NoFlip(array_info) == 1

\* the sign applied to the steering angle inside the sine (variable `one`)
One(array_info) == IF array_info.curvature = 0 THEN -1 ELSE 1

\* -k * (ex * sin(one * radians(steering)) + ey * cos(radians(steering)))
PhaseShift(wave_number, ex, ey, one, steering) ==
    FMulFix(FAdd(FMulFix(ex, Fin(Sin(one * Radians(steering)))),
                 FMulFix(ey, Fin(Cos(Radians(steering))))),
            Fin(-wave_number))

\* np.sqrt((X - ex) ** 2 + (Y - ey) ** 2)
Distance(X, Y, ex, ey) ==
    IF IsFin(ex) /\ IsFin(ey)
    THEN Fin(Isqrt((X - ex.v) * (X - ex.v) + (Y - ey.v) * (Y - ey.v)))
    ELSE IF IsNaN(ex) \/ IsNaN(ey) THEN NaN ELSE Inf(1)

\* the elements of one array as the inner loop of simulate_multiple_arrays
\* visits them: position, sign and steering phase shift of each
ArrayTerms(array_info, a, wave_number, steering) ==
    LET positions == CalculateElementPositions(array_info.num_elements,
                         array_info.spacing, array_info.curvature)
        one == One(array_info)
    IN  ListOf([j \in 1..Len(positions) |->
            [array |-> a, ex |-> positions[j][1], ey |-> positions[j][2],
             phase_shift |-> PhaseShift(wave_number, positions[j][1],
                                        positions[j][2], one, steering)]],
            Len(positions))

\* the arrays the outer loop of simulate_multiple_arrays visits
SimulatedArrays(infos) == infos

RECURSIVE AllTerms(_, _, _, _)
\* every element the two loops visit, arrays a..Len(infos), in order
AllTerms(infos, a, wave_number, steering) ==
    IF a > Len(infos) THEN <<>>
    ELSE ArrayTerms(infos[a], a, wave_number, steering)
         \o AllTerms(infos, a + 1, wave_number, steering)

RECURSIVE FieldAt(_, _, _, _, _)
\* intensity_map at grid point (X, Y) after the first n elements were added
FieldAt(ts, n, X, Y, wave_number) ==
    IF n = 0 THEN CZero
    ELSE CAdd(FieldAt(ts, n - 1, X, Y, wave_number),
              CExp(FAdd(FMulFix(Fin(wave_number), Distance(X, Y, ts[n].ex, ts[n].ey)),
                        ts[n].phase_shift)))

RECURSIVE MaxOf(_, _)
\* the largest of the finite values vs[1..n]
MaxOf(vs, n) ==
    IF n = 1 THEN vs[1]
    ELSE LET m == MaxOf(vs, n - 1) IN IF vs[n] > m THEN vs[n] ELSE m

\* np.max of a grid of doubles: nan as soon as one entry is nan
NpMax(grid) ==
    LET cols == Len(grid[1])
        flat == ListOf([p \in 1..(Len(grid) * cols) |->
                    grid[((p - 1) \div cols) + 1][((p - 1) % cols) + 1]],
                    Len(grid) * cols)
    IN  IF \E p \in DOMAIN flat : ~IsFin(flat[p]) THEN NaN
        ELSE Fin(MaxOf(ListOf([p \in DOMAIN flat |-> flat[p].v], Len(flat)), Len(flat)))

\* value / (maximum + 1e-10).  1e-10 is far below the thousandth the model
\* resolves: at this resolution maximum + 1e-10 is maximum when maximum > 0,
\* and the only effect left of the epsilon is that 0 / (0 + 1e-10) is 0.
DivideByMaxPlusEps(value, maximum) ==
    IF ~IsFin(value) \/ ~IsFin(maximum) THEN NaN
    ELSE IF maximum.v = 0 THEN Fin(0)
    ELSE Fin((value.v * Scale) \div maximum.v)

\* BeamformingSimulator.simulate_multiple_arrays: (x, y, intensity)
SimulateMultipleArrays(infos, wave_number, steering, x_range, y_range) ==
    LET x == Linspace(x_range[1], x_range[2], GridSamples)
        y == Linspace(y_range[1], y_range[2], GridSamples)
        ts == AllTerms(SimulatedArrays(infos), 1, wave_number, steering)
        raw == ListOf([r \in 1..GridSamples |-> ListOf([c \in 1..GridSamples |->
                  AbsSquared(FieldAt(ts, Len(ts), x[c], y[r], wave_number))],
                  GridSamples)], GridSamples)
        maximum == NpMax(raw)
    IN  [x |-> x, y |-> y,
         intensity |-> ListOf([r \in 1..GridSamples |-> ListOf([c \in 1..GridSamples |->
                          DivideByMaxPlusEps(raw[r][c], maximum)], GridSamples)],
                          GridSamples)]

\* ArrayFactorTerms looping over every array, as simulate_multiple_arrays does
ArrayFactorTerms_AllArrays(infos, wave_number, steering) ==
    LET RECURSIVE Every(_)
        Every(a) ==
            IF a > Len(infos) THEN <<>>
            ELSE LET positions == CalculateElementPositions(infos[a].num_elements,
                                      infos[a].spacing, infos[a].curvature)
                 IN  ListOf([j \in 1..Len(positions) |->
                        [array |-> a, ex |-> positions[j][1], ey |-> positions[j][2],
                         phase_shift |-> PhaseShift(wave_number, positions[j][1],
                                                    positions[j][2], 1, steering)]],
                        Len(positions)) \o Every(a + 1)
    IN  Every(1)

\* the elements calculate_array_factor sums over: those of arrays_info[0],
\* with the steering angle taken as it is (no sign)
ArrayFactorTerms(infos, wave_number, steering) ==
    LET positions == CalculateElementPositions(infos[1].num_elements,
                         infos[1].spacing, infos[1].curvature)
    IN  ListOf([j \in 1..Len(positions) |->
            [array |-> 1, ex |-> positions[j][1], ey |-> positions[j][2],
             phase_shift |-> PhaseShift(wave_number, positions[j][1],
                                        positions[j][2], 1, steering)]],
            Len(positions))

RECURSIVE FactorAt(_, _, _, _)
\* array_factor at one angle (degrees) after the first n elements were added
FactorAt(ts, n, angle, wave_number) ==
    IF n = 0 THEN CZero
    ELSE CAdd(FactorAt(ts, n - 1, angle, wave_number),
              CExp(FAdd(FMulFix(FAdd(FMulFix(ts[n].ex, Fin(Sin(Radians(angle)))),
                                     FMulFix(ts[n].ey, Fin(Cos(Radians(angle))))),
                                Fin(wave_number)),
                        ts[n].phase_shift)))

\* BeamformingSimulator.calculate_array_factor on a non-empty list
CalculateArrayFactor(infos, wave_number, steering, angles) ==
    LET ts == ArrayFactorTerms(infos, wave_number, steering)
    IN  ListOf([i \in 1..Len(angles) |->
            AbsSquared(FactorAt(ts, Len(ts), angles[i], wave_number))], Len(angles))

(* ------------------------------- state --------------------------------- *)
VARIABLES
    constructed,     \* whether a BeamformingSimulator exists
    frequency,       \* self.frequency (MHz)
    steering_angle,  \* self.steering_angle (degrees)
    arrays_info,     \* self.arrays_info: the caller's list, shared by reference
    wavelength,      \* self.wavelength (mm)
    k,               \* self.k (milliradians per metre)
    op,              \* the last operation called
    args,            \* its arguments
    outcome,         \* "ok", or the exception it raised
    ret,             \* the value it returned
    terms,           \* the elements its summation loop visited
    configurations,  \* the caller's name for its list (self.configurations)
    changed          \* whether the list, the steering angle or the wave
                     \* number was given another value since construction

vars == <<constructed, frequency, steering_angle, arrays_info, wavelength, k,
          op, args, outcome, ret, terms, configurations, changed>>

simulator == <<frequency, steering_angle, arrays_info, wavelength, k>>

None == [kind |-> "none"]

\* the ranges and the sweep the caller passes (Controller.py lines 183-187)
XRanges == {<<-10000, 10000>>, <<-5000, 5000>>}
YRanges == {<<0, 10000>>}
AngleSweeps == {Linspace(-90, 90, AngleSamples), <<0, 45>>}

Init ==
    /\ constructed = FALSE
    /\ frequency = 0
    /\ steering_angle = 0
    /\ arrays_info = <<>>
    /\ wavelength = 0
    /\ k = 0
    /\ op = "none"
    /\ args = None
    /\ outcome = "ok"
    /\ ret = None
    /\ terms = <<>>
    /\ configurations = <<>>
    /\ changed = FALSE

(* ------------------------------ operations ----------------------------- *)
\* BeamformingSimulator.__init__(frequency, steering_angle, arrays_info)
CallInit(f, s, infos) ==
    /\ ~constructed
    /\ op' = "__init__"
    /\ args' = [frequency |-> f, steering_angle |-> s, arrays_info |-> infos]
    /\ ret' = None
    /\ terms' = <<>>
    /\ configurations' = infos
    /\ changed' = FALSE
    /\ LET w == Wavelength(f)
           kn == WaveNumber(w.v)
       IN  IF w.raised \/ kn.raised
           THEN /\ outcome' = "ZeroDivisionError"
                /\ UNCHANGED <<constructed, frequency, steering_angle,
                               arrays_info, wavelength, k>>
           ELSE /\ outcome' = "ok"
                /\ constructed' = TRUE
                /\ frequency' = f
                /\ steering_angle' = s
                /\ arrays_info' = infos
                /\ wavelength' = w.v
                /\ k' = kn.v

\* BeamformingSimulator.update_operating_frequency(frequency): the three
\* assignments in order; an exception leaves the earlier ones in place
CallUpdateOperatingFrequency(f) ==
    /\ constructed
    /\ op' = "update_operating_frequency"
    /\ args' = [frequency |-> f]
    /\ ret' = None
    /\ terms' = <<>>
    /\ frequency' = f
    /\ LET w == Wavelength(f)
           kn == WaveNumber(w.v)
       IN  IF w.raised
           THEN /\ outcome' = "ZeroDivisionError"
                /\ UNCHANGED <<wavelength, k>>
           ELSE IF kn.raised
           THEN /\ outcome' = "ZeroDivisionError"
                /\ wavelength' = w.v
                /\ UNCHANGED k
           ELSE /\ outcome' = "ok"
                /\ wavelength' = w.v
                /\ k' = kn.v
    /\ changed' = (changed \/ k' # k)
    /\ UNCHANGED <<constructed, steering_angle, arrays_info, configurations>>

\* BeamformingSimulator.update_steering_angle(steering_angle)
CallUpdateSteeringAngle(s) ==
    /\ constructed
    /\ op' = "update_steering_angle"
    /\ args' = [steering_angle |-> s]
    /\ outcome' = "ok"
    /\ ret' = None
    /\ terms' = <<>>
    /\ steering_angle' = s
    /\ changed' = (changed \/ s # steering_angle)
    /\ UNCHANGED <<constructed, frequency, arrays_info, wavelength, k,
                   configurations>>

\* BeamformingSimulator.simulate_multiple_arrays(x_range, y_range)
CallSimulateMultipleArrays(x_range, y_range) ==
    /\ constructed
    /\ op' = "simulate_multiple_arrays"
    /\ args' = [x_range |-> x_range, y_range |-> y_range]
    /\ outcome' = "ok"
    /\ ret' = [kind |-> "intensity_map"] @@
              SimulateMultipleArrays(arrays_info, k, steering_angle, x_range, y_range)
    /\ terms' = AllTerms(SimulatedArrays(arrays_info), 1, k, steering_angle)
    /\ UNCHANGED <<constructed, frequency, steering_angle, arrays_info,
                   wavelength, k, configurations, changed>>

\* CallCalculateArrayFactor keeping the steering angle it converted to
\* radians (self.steering_angle = np.radians(self.steering_angle))
CallCalculateArrayFactor_InPlace(angles) ==
    /\ constructed
    /\ op' = "calculate_array_factor"
    /\ args' = [angles |-> angles]
    /\ steering_angle' = Radians(steering_angle)
    /\ IF Len(arrays_info) = 0
       THEN /\ outcome' = "IndexError"
            /\ ret' = None
            /\ terms' = <<>>
       ELSE /\ outcome' = "ok"
            /\ ret' = [kind |-> "array_factor",
                       array_factor |->
                           CalculateArrayFactor(arrays_info, k, steering_angle, angles)]
            /\ terms' = ArrayFactorTerms(arrays_info, k, steering_angle)
    /\ UNCHANGED <<constructed, frequency, arrays_info, wavelength, k,
                   configurations, changed>>

\* BeamformingSimulator.calculate_array_factor(angles): arrays_info[0] of an
\* empty list raises IndexError
CallCalculateArrayFactor(angles) ==
    /\ constructed
    /\ op' = "calculate_array_factor"
    /\ args' = [angles |-> angles]
    /\ IF Len(arrays_info) = 0
       THEN /\ outcome' = "IndexError"
            /\ ret' = None
            /\ terms' = <<>>
       ELSE /\ outcome' = "ok"
            /\ ret' = [kind |-> "array_factor",
                       array_factor |->
                           CalculateArrayFactor(arrays_info, k, steering_angle, angles)]
            /\ terms' = ArrayFactorTerms(arrays_info, k, steering_angle)
    /\ UNCHANGED <<constructed, frequency, steering_angle, arrays_info,
                   wavelength, k, configurations, changed>>

\* update_and_refresh_arrays_info binding self.configurations to a new list
\* (self.configurations = [...]) instead of clearing and refilling the one
\* the simulator holds
UpdateAndRefreshArraysInfo_Rebound(infos) ==
    /\ constructed
    /\ op' = "update_and_refresh_arrays_info"
    /\ args' = [arrays_info |-> infos]
    /\ configurations' = infos
    /\ arrays_info' = arrays_info
    /\ changed' = (changed \/ infos # configurations)
    /\ terms' = <<>>
    /\ IF Len(arrays_info') = 0
       THEN /\ outcome' = "IndexError"
            /\ ret' = None
       ELSE /\ outcome' = "ok"
            /\ ret' = [kind |-> "views",
                       intensity |->
                           SimulateMultipleArrays(arrays_info', k, steering_angle,
                               <<-10000, 10000>>, <<0, 10000>>).intensity,
                       array_factor |->
                           CalculateArrayFactor(arrays_info', k, steering_angle,
                               Linspace(-90, 90, AngleSamples))]
    /\ UNCHANGED <<constructed, frequency, steering_angle, wavelength, k>>

\* MainController.update_and_refresh_arrays_info: the caller clears the list
\* the simulator holds and refills it in place (the values come from the
\* widgets), so both names show the new contents; then
\* apply_configurations_to_visualization runs both simulations on the
\* simulator's list
UpdateAndRefreshArraysInfo(infos) ==
    /\ constructed
    /\ op' = "update_and_refresh_arrays_info"
    /\ args' = [arrays_info |-> infos]
    /\ configurations' = infos
    /\ arrays_info' = infos
    /\ changed' = (changed \/ infos # configurations)
    /\ terms' = <<>>
    /\ IF Len(arrays_info') = 0
       THEN /\ outcome' = "IndexError"
            /\ ret' = None
       ELSE /\ outcome' = "ok"
            /\ ret' = [kind |-> "views",
                       intensity |->
                           SimulateMultipleArrays(arrays_info', k, steering_angle,
                               <<-10000, 10000>>, <<0, 10000>>).intensity,
                       array_factor |->
                           CalculateArrayFactor(arrays_info', k, steering_angle,
                               Linspace(-90, 90, AngleSamples))]
    /\ UNCHANGED <<constructed, frequency, steering_angle, wavelength, k>>

Next ==
    \/ \E f \in Frequencies, s \in SteeringAngles, infos \in ConfigLists :
          CallInit(f, s, infos)
    \/ \E f \in Frequencies : CallUpdateOperatingFrequency(f)
    \/ \E s \in SteeringAngles : CallUpdateSteeringAngle(s)
    \/ \E x_range \in XRanges, y_range \in YRanges :
          CallSimulateMultipleArrays(x_range, y_range)
    \/ \E angles \in AngleSweeps : CallCalculateArrayFactor(angles)
    \/ \E infos \in ConfigLists : UpdateAndRefreshArraysInfo(infos)

Spec == Init /\ [][Next]_vars

(* ---------------- the geometry function on its own --------------------- *)
InitGeometry ==
    /\ constructed = FALSE
    /\ frequency = 0
    /\ steering_angle = 0
    /\ arrays_info = <<>>
    /\ wavelength = 0
    /\ k = 0
    /\ op = "none"
    /\ args \in GeomInputs
    /\ outcome = "ok"
    /\ ret = None
    /\ terms = <<>>
    /\ configurations = <<>>
    /\ changed = FALSE

\* BeamformingSimulator.calculate_element_positions applied to the inputs
CallCalculateElementPositions ==
    /\ op = "none"
    /\ op' = "calculate_element_positions"
    /\ outcome' = "ok"
    /\ ret' = [kind |-> "positions",
               positions |-> CalculateElementPositions(args.num_elements,
                                 args.element_spacing, args.curvature_degree)]
    /\ UNCHANGED <<constructed, frequency, steering_angle, arrays_info,
                   wavelength, k, args, terms, configurations, changed>>

NextGeometry == CallCalculateElementPositions

SpecGeometry == InitGeometry /\ [][NextGeometry]_vars

(* ------------------------------- claims -------------------------------- *)
Simulations == {"simulate_multiple_arrays", "calculate_array_factor"}

\* C1: update_operating_frequency with a frequency <= 0 fails with
\* InvalidParameter and leaves frequency, wavelength and k as they were.
C1_NonPositiveFrequencyRejected ==
    [][(op' = "update_operating_frequency" /\ args'.frequency <= 0)
        => (/\ outcome' = "InvalidParameter"
            /\ frequency' = frequency
            /\ wavelength' = wavelength
            /\ k' = k)]_vars

\* C2: in every state of a constructed simulator, wavelength = c / frequency
\* and k = 2 pi / wavelength for the frequency stored.
C2_DerivedFieldsInSync ==
    constructed =>
        /\ frequency # 0
        /\ wavelength = (SpeedOfLight * Scale) \div frequency
        /\ wavelength # 0
        /\ k = (2 * Pi * Scale) \div wavelength

\* C3: with an empty configuration list, simulate_multiple_arrays and
\* calculate_array_factor both fail with EmptyConfiguration.
C3_EmptyConfigurationRejected ==
    (op \in Simulations /\ Len(arrays_info) = 0) => outcome = "EmptyConfiguration"

\* C4: the constructor fails with InvalidParameter, and creates no simulator,
\* when the frequency is <= 0 or a configuration has a spacing <= 0 or an
\* element count <= 0.
C4_ConstructorRejectsNonPositive ==
    (/\ op = "__init__"
     /\ \/ args.frequency <= 0
        \/ \E a \in DOMAIN args.arrays_info :
              \/ args.arrays_info[a].spacing <= 0
              \/ args.arrays_info[a].num_elements <= 0)
    => (outcome = "InvalidParameter" /\ ~constructed)

\* C5: simulate_multiple_arrays and calculate_array_factor, succeeding or
\* failing, leave frequency, steering_angle, wavelength, k and the
\* configuration list unchanged.
C5_SimulationsReadOnly ==
    [][op' \in Simulations
        => UNCHANGED <<frequency, steering_angle, arrays_info, wavelength, k>>]_vars

\* a calculate_array_factor call that failed, on a simulator whose frequency
\* was changed since construction
C5_Witness ==
    /\ op = "calculate_array_factor"
    /\ outcome = "IndexError"
    /\ steering_angle = 30
    /\ frequency = -5

\* C6: calculate_element_positions with num_elements = 1 returns the single
\* position (0, 0), whatever the spacing and the curvature.
C6_SingleElementAtOrigin ==
    (op = "calculate_element_positions" /\ args.num_elements = 1)
    => ret.positions = <<<<Fin(0), Fin(0)>>>>

\* the number of elements of the arrays of a list
RECURSIVE TotalElements(_, _)
TotalElements(infos, n) ==
    IF n = 0 THEN 0 ELSE TotalElements(infos, n - 1) + infos[n].num_elements

\* C7: with two or more arrays configured, calculate_array_factor sums over
\* the elements of the first array only, and its result is the one the first
\* array alone gives; simulate_multiple_arrays sums over every element of
\* every array.
C7_FirstArrayOnlyVersusAll ==
    /\ (op = "calculate_array_factor" /\ Len(arrays_info) >= 2) =>
          /\ Len(terms) = arrays_info[1].num_elements
          /\ \A t \in DOMAIN terms : terms[t].array = 1
          /\ ret.array_factor =
                CalculateArrayFactor(<<arrays_info[1]>>, k, steering_angle, args.angles)
    /\ (op = "simulate_multiple_arrays" /\ Len(arrays_info) >= 2) =>
          /\ Len(terms) = TotalElements(arrays_info, Len(arrays_info))
          /\ \A a \in DOMAIN arrays_info :
                Cardinality({t \in DOMAIN terms : terms[t].array = a})
                    = arrays_info[a].num_elements

\* an array factor computed with a different, non-empty second array
C7_Witness ==
    /\ op = "calculate_array_factor"
    /\ Len(arrays_info) = 2
    /\ arrays_info[1].num_elements = 2
    /\ arrays_info[2].num_elements = 2
    /\ arrays_info[1].curvature # arrays_info[2].curvature
    /\ steering_angle = 30

\* C8: for curvature 0, num_elements >= 1 and spacing > 0 there are
\* num_elements positions, all with y = 0, consecutive x exactly spacing
\* apart, symmetric about x = 0, position i at i*spacing - (n-1)*spacing/2.
C8_LinearArrayLayout ==
    (/\ op = "calculate_element_positions"
     /\ args.curvature_degree = 0
     /\ args.num_elements >= 1
     /\ args.element_spacing > 0)
    => LET n == args.num_elements
           ps == ret.positions
       IN  /\ Len(ps) = n
           /\ \A i \in 1..n :
                 /\ IsFin(ps[i][1])
                 /\ ps[i][2] = Fin(0)
                 /\ 2 * ps[i][1].v
                      = 2 * (i - 1) * args.element_spacing - (n - 1) * args.element_spacing
                 /\ ps[i][1].v = -ps[n + 1 - i][1].v
           /\ \A i \in 1..(n - 1) : ps[i + 1][1].v - ps[i][1].v = args.element_spacing

\* a linear array of four elements
C8_Witness ==
    /\ op = "calculate_element_positions"
    /\ args.curvature_degree = 0
    /\ args.num_elements = 4
    /\ args.element_spacing = 1500
    /\ Len(ret.positions) = 4

\* C9: when some configured array has at least one element, every value of
\* the intensity grid lies in [0, 1] and some grid point reaches 1 (within a
\* thousandth).
C9_IntensityNormalised ==
    (/\ op = "simulate_multiple_arrays"
     /\ \E a \in DOMAIN arrays_info : arrays_info[a].num_elements >= 1)
    => /\ \A r \in 1..GridSamples, c \in 1..GridSamples :
             /\ IsFin(ret.intensity[r][c])
             /\ ret.intensity[r][c].v >= 0
             /\ ret.intensity[r][c].v <= Scale
       /\ \E r \in 1..GridSamples, c \in 1..GridSamples :
             /\ IsFin(ret.intensity[r][c])
             /\ ret.intensity[r][c].v >= Scale - 1

\* -k * (ex * sigma * sin(steering) + ey * cos(steering))
SteeringPhase(wave_number, ex, ey, sigma, steering) ==
    FMulFix(FAdd(FMulFix(ex, Fin(sigma * Sin(Radians(steering)))),
                 FMulFix(ey, Fin(Cos(Radians(steering))))),
            Fin(-wave_number))

\* C10: in simulate_multiple_arrays the sign of the steering angle inside the
\* sine is -1 for the elements of an array of curvature 0 and +1 for those of
\* any other array, array by array; in calculate_array_factor it is +1.
C10_SteeringSign ==
    /\ op = "simulate_multiple_arrays" =>
          \A t \in DOMAIN terms :
              terms[t].phase_shift =
                  SteeringPhase(k, terms[t].ex, terms[t].ey,
                      IF arrays_info[terms[t].array].curvature = 0 THEN -1 ELSE 1,
                      steering_angle)
    /\ (op = "calculate_array_factor" /\ outcome = "ok") =>
          \A t \in DOMAIN terms :
              terms[t].phase_shift =
                  SteeringPhase(k, terms[t].ex, terms[t].ey, 1, steering_angle)

\* a simulation of a flat and a curved array together, steered off axis, in
\* which the sign decides the phase shift of an element of each
C10_Witness ==
    /\ op = "simulate_multiple_arrays"
    /\ steering_angle = 30
    /\ \E t, u \in DOMAIN terms :
          /\ arrays_info[terms[t].array].curvature = 0
          /\ arrays_info[terms[u].array].curvature # 0
          /\ terms[t].phase_shift
                # SteeringPhase(k, terms[t].ex, terms[t].ey, 1, steering_angle)
          /\ terms[u].phase_shift
                # SteeringPhase(k, terms[u].ex, terms[u].ey, -1, steering_angle)

\* the positions the geometry function gives for the configurations of a
\* list, array by array
PositionsNow(infos, a) ==
    CalculateElementPositions(infos[a].num_elements, infos[a].spacing,
                              infos[a].curvature)

\* C11: nothing is cached between calls: what simulate_multiple_arrays and
\* calculate_array_factor sum over and return, called directly or by the
\* caller's clear-and-refill handler, is what the caller's configuration
\* list, the steering angle and the wave number give at the time of the
\* call, whatever was simulated before.
C11_SimulationsUseCurrentValues ==
    /\ op = "simulate_multiple_arrays" =>
          /\ Len(terms) = TotalElements(configurations, Len(configurations))
          /\ \A t \in DOMAIN terms :
                /\ terms[t].array \in DOMAIN configurations
                /\ \E j \in DOMAIN PositionsNow(configurations, terms[t].array) :
                      PositionsNow(configurations, terms[t].array)[j]
                          = <<terms[t].ex, terms[t].ey>>
          /\ ret.intensity =
                SimulateMultipleArrays(configurations, k, steering_angle,
                                       args.x_range, args.y_range).intensity
    /\ op = "calculate_array_factor" =>
          /\ (outcome = "IndexError") = (Len(configurations) = 0)
          /\ outcome = "ok" =>
                /\ \A t \in DOMAIN terms :
                      \E j \in DOMAIN PositionsNow(configurations, 1) :
                          PositionsNow(configurations, 1)[j]
                              = <<terms[t].ex, terms[t].ey>>
                /\ ret.array_factor =
                      CalculateArrayFactor(configurations, k, steering_angle,
                                           args.angles)
    /\ (op = "update_and_refresh_arrays_info" /\ Len(configurations) > 0) =>
          /\ outcome = "ok"
          /\ ret.intensity =
                SimulateMultipleArrays(configurations, k, steering_angle,
                                       <<-10000, 10000>>, <<0, 10000>>).intensity
          /\ ret.array_factor =
                CalculateArrayFactor(configurations, k, steering_angle,
                                     Linspace(-90, 90, AngleSamples))

\* a simulation of two arrays, steered off axis, issued after the list, the
\* steering angle or the wave number was given another value
C11_Witness ==
    /\ op = "simulate_multiple_arrays"
    /\ changed
    /\ Len(configurations) = 2
    /\ steering_angle = 30
    /\ k > 0
    /\ Len(terms) = 4

====
